---- MODULE Spec2Model ----
(***************************************************************************)
(* Escrow-backed payment coordination of bitagent:                         *)
(* src/src/security/payment_security.py, class PaymentSecurityManager.     *)
(* One action per public method; every action is the whole method.         *)
(***************************************************************************)
EXTENDS Integers, Sequences, FiniteSets, TLC

(* ---------------------------------------------------------------- bounds *)
\* number of escrows create_escrow_payment may store
MaxEscrows == 1
\* number of disputes create_dispute may store
MaxDisputes == 2
\* last value of the wall clock time.time()
MaxTime == 1
\* number of callers that run fund_escrow at the same time
MaxCallers == 3
\* length of the interaction list calculate_trust_score may be given
MaxInteractions == 2

\* a transaction id is created again only while it has been executed fewer
\* times than this
MaxExecutions == 2

(* ---------------------------------------------------------------- inputs *)
\* the arguments of the wallet's methods
SignerIds == {"signer_1", "signer_2", "signer_3"}
PublicKeys == {"public_key"}
TransactionIds == {"tx_1", "tx_2"}
TransactionAmounts == {60}
Recipients == {"seller"}
Signatures == {"signature"}

\* Optional[T]: None is the empty tuple, a present value a 1-tuple
None == <<>>
Some(x) == <<x>>

BuyerIds == {"buyer"}
SellerIds == {"seller"}
ComplainantIds == {"buyer", "seller", "mallory"}
Amounts == {-150, 60}
Descriptions == {"Test service"}
Conditions == {<<>>}
EscrowArbitrators == {None, Some("arbitrator_2")}
ResolveArbitrators == {"arbitrator_1", "arbitrator_2"}
PaymentHashes == {"payment_hash", "payment_hash_2"}
ReleaseReasons == {"Service completed"}
DisputeReasons == {"Service not delivered"}
Resolutions == {"Service was delivered correctly"}
RefundAmounts == {None, Some(-150), Some(60), Some(150)}
\* ids a caller may pass: every id that can be stored and one that never is
EscrowIdArgs == 1..(MaxEscrows + 1)
DisputeIdArgs == 1..(MaxDisputes + 1)

(* ----------------------------------------------------------------- enums *)
EscrowStatus ==
    [CREATED |-> "created", FUNDED |-> "funded", RELEASED |-> "released",
     DISPUTED |-> "disputed", REFUNDED |-> "refunded"]

DisputeStatus ==
    [OPEN |-> "open", IN_REVIEW |-> "in_review", RESOLVED |-> "resolved",
     CLOSED |-> "closed"]

(* ----------------------------------------------------------------- state *)
VARIABLES
    escrow_payments,   \* self.escrow_payments: escrow_id -> EscrowPayment
    disputes,          \* self.disputes: dispute_id -> PaymentDispute
    payouts,           \* calls made to the payment system, per escrow_id
    now,               \* the wall clock read by time.time()
    last,              \* the last call made: method, id argument, outcome
    prev,              \* the manager's state when the last call was made
    calls,             \* the fund_escrow calls in progress, one per caller
    trust_scores,      \* EnhancedDIDManager.trust_scores: agent_id -> TrustScore
    signers,           \* MultiSigWallet.signers: signer_id -> signer
    pending_transactions,    \* MultiSigWallet.pending_transactions
    completed_transactions,  \* MultiSigWallet.completed_transactions
    executions         \* executions handed to the payment system, per id

\* the state of the multi-signature wallet
wallet == <<signers, pending_transactions, completed_transactions, executions>>

vars == <<escrow_payments, disputes, payouts, now, last, prev, calls, trust_scores,
          wallet>>

\* the callers of fund_escrow, and a caller that has not called yet
Callers == 1..MaxCallers
NoCall == [pc |-> "idle", escrow_id |-> 0, payment_hash |-> "", ret |-> ""]

\* the manager's state, as the call being made finds it
Snapshot ==
    [escrow_payments |-> escrow_payments, disputes |-> disputes,
     trust_scores |-> trust_scores]

\* the record of a call: op(id, ...) returned ret; arg is the argument or the
\* collaborator's answer that the call's outcome depends on
Call(op, id, arg, ret) == [op |-> op, id |-> id, arg |-> arg, ret |-> ret]

\* self.escrow_fee_rate = 0.01, as the fraction numerator / denominator
escrow_fee_rate == [num |-> 1, den |-> 100]

\* Python int(x) of the quotient n / d: truncation towards zero
int(n, d) == IF n >= 0 THEN n \div d ELSE -((-n) \div d)

\* Python round(x) of the quotient n / d (d > 0): nearest, ties to even
round(n, d) ==
    LET q == n \div d
        r == n % d
    IN  IF 2 * r < d THEN q
        ELSE IF 2 * r > d THEN q + 1
        ELSE IF q % 2 = 0 THEN q ELSE q + 1

\* mutant of escrow_fee: the fee rounded to the nearest sat
escrow_fee_rounded(amount_sats) ==
    round(amount_sats * escrow_fee_rate.num, escrow_fee_rate.den)

\* escrow_fee = int(amount_sats * self.escrow_fee_rate)
escrow_fee(amount_sats) ==
    int(amount_sats * escrow_fee_rate.num, escrow_fee_rate.den)

\* secrets.token_hex ids are fresh; the n-th id generated is n
generate_escrow_id == Cardinality(DOMAIN escrow_payments) + 1
generate_dispute_id == Cardinality(DOMAIN disputes) + 1

Init ==
    /\ escrow_payments = <<>>
    /\ disputes = <<>>
    /\ payouts = <<>>
    /\ now = 0
    /\ last = Call("__init__", 0, "", "None")
    /\ prev = [escrow_payments |-> <<>>, disputes |-> <<>>, trust_scores |-> <<>>]
    /\ calls = [caller \in Callers |-> NoCall]
    /\ trust_scores = <<>>
    /\ signers = <<>>
    /\ pending_transactions = <<>>
    /\ completed_transactions = <<>>
    /\ executions = [transaction_id \in TransactionIds |-> 0]

\* time passes between calls
Tick ==
    /\ now < MaxTime
    /\ now' = now + 1
    /\ UNCHANGED <<escrow_payments, disputes, payouts, last, prev>>
    /\ UNCHANGED <<calls, trust_scores, wallet>>

\* created_at is left out of both records: it is set at construction and read
\* only to fill the "timestamp" of the fraud payload, which no rule looks at.
create_escrow_payment(buyer_id, seller_id, amount_sats, service_description, conditions, arbitrator_id) ==
    LET escrow_id == generate_escrow_id
        escrow ==
            [escrow_id |-> escrow_id,
             buyer_id |-> buyer_id,
             seller_id |-> seller_id,
             amount_sats |-> amount_sats,
             service_description |-> service_description,
             escrow_fee_sats |-> escrow_fee(amount_sats),
             status |-> EscrowStatus.CREATED,
             funded_at |-> None,
             released_at |-> None,
             dispute_id |-> None,
             arbitrator_id |-> arbitrator_id,
             conditions |-> conditions,
             signatures |-> <<>>]
    IN  /\ escrow_payments' = (escrow_id :> escrow) @@ escrow_payments
        /\ payouts' = (escrow_id :> [release |-> 0, refund |-> 0]) @@ payouts
        /\ last' = Call("create_escrow_payment", escrow_id, "", "EscrowPayment")
        /\ prev' = Snapshot
        /\ UNCHANGED <<disputes, now>>

CreateEscrow ==
    /\ Cardinality(DOMAIN escrow_payments) < MaxEscrows
    /\ UNCHANGED <<calls, trust_scores, wallet>>
    /\ \E buyer_id \in BuyerIds, seller_id \in SellerIds, amount_sats \in Amounts,
          service_description \in Descriptions, conditions \in Conditions,
          arbitrator_id \in EscrowArbitrators :
            create_escrow_payment(buyer_id, seller_id, amount_sats,
                                  service_description, conditions, arbitrator_id)

\* a call that returns without touching the manager's state
Returns(op, id, arg, ret) ==
    /\ last' = Call(op, id, arg, ret)
    /\ prev' = Snapshot
    /\ UNCHANGED <<escrow_payments, disputes, payouts, now>>

\* _verify_payment: the payment gateway's answer, verified. The placeholder
\* answers True; the tests patch it, and fund_escrow handles both answers.
verify_payment(payment_hash, expected_amount, verified) == verified

\* _check_escrow_conditions: placeholder, always True
check_escrow_conditions(escrow) == TRUE

\* _process_payment_release: placeholder, always True
process_payment_release(escrow) == TRUE

\* _process_refund: placeholder, always True
process_refund(escrow, refund_amount) == TRUE

\* _generate_release_signature: sha256 over "escrow_id:amount:reason:time",
\* kept as the hashed data (the digest is taken to be injective)
generate_release_signature(escrow, reason) ==
    <<escrow.escrow_id, escrow.amount_sats, reason, now>>

\* _assign_arbitrator: placeholder pick
assign_arbitrator == "arbitrator_1"

\* _evaluate_fraud_rule: placeholder, always False
evaluate_fraud_rule(rule, payment_data) == FALSE

\* self.fraud_rules after _initialize_fraud_rules
fraud_rules ==
    << [rule_id |-> "high_amount", conditions |-> [amount_threshold |-> 1000000],
        severity |-> "medium", action |-> "flag", enabled |-> TRUE],
       [rule_id |-> "rapid_transactions",
        conditions |-> [time_window |-> 300, max_transactions |-> 5],
        severity |-> "high", action |-> "block", enabled |-> TRUE],
       [rule_id |-> "new_agent", conditions |-> [min_age_days |-> 7],
        severity |-> "low", action |-> "flag", enabled |-> TRUE] >>

\* detect_payment_fraud: ids of the enabled rules that evaluate true, in order
detect_payment_fraud(payment_data) ==
    LET triggered(rule) == rule.enabled /\ evaluate_fraud_rule(rule, payment_data)
        triggered_rules == SelectSeq(fraud_rules, triggered)
    IN  [i \in 1..Len(triggered_rules) |-> triggered_rules[i].rule_id]

\* _detect_fraud
detect_fraud(escrow) ==
    LET payment_data ==
            [buyer_id |-> escrow.buyer_id, seller_id |-> escrow.seller_id,
             amount |-> escrow.amount_sats]
    IN  Len(detect_payment_fraud(payment_data)) > 0

\* mutant of fund_escrow: the check of the status is missing
fund_escrow_unchecked(escrow_id, payment_hash, verified) ==
    IF escrow_id \notin DOMAIN escrow_payments
    THEN Returns("fund_escrow", escrow_id, "", "False")
    ELSE LET escrow == escrow_payments[escrow_id] IN
         IF verify_payment(payment_hash,
                                escrow.amount_sats + escrow.escrow_fee_sats, verified)
         THEN /\ escrow_payments' =
                    [escrow_payments EXCEPT ![escrow_id] =
                        [escrow EXCEPT
                            !.status = EscrowStatus.FUNDED,
                            !.funded_at = Some(now),
                            !.signatures = ("funding" :> payment_hash) @@ @]]
              \* _handle_fraud_detection only logs
              /\ detect_fraud(escrow) \in BOOLEAN
              \* the call's record keeps the payment reference it stored
              /\ last' = [op |-> "fund_escrow", id |-> escrow_id, arg |-> "verified",
                          ret |-> "True", payment_hash |-> payment_hash]
              /\ prev' = Snapshot
              /\ UNCHANGED <<disputes, payouts, now>>
         ELSE Returns("fund_escrow", escrow_id, "not verified", "False")

\* mutant of fund_escrow: the status is set before the payment is verified
fund_escrow_eager(escrow_id, payment_hash, verified) ==
    IF escrow_id \notin DOMAIN escrow_payments
    THEN Returns("fund_escrow", escrow_id, "", "False")
    ELSE LET escrow == escrow_payments[escrow_id] IN
         IF escrow.status # EscrowStatus.CREATED
         THEN Returns("fund_escrow", escrow_id, "", "False")
         ELSE IF verify_payment(payment_hash,
                                escrow.amount_sats + escrow.escrow_fee_sats, verified)
         THEN /\ escrow_payments' =
                    [escrow_payments EXCEPT ![escrow_id] =
                        [escrow EXCEPT
                            !.status = EscrowStatus.FUNDED,
                            !.funded_at = Some(now),
                            !.signatures = ("funding" :> payment_hash) @@ @]]
              \* _handle_fraud_detection only logs
              /\ detect_fraud(escrow) \in BOOLEAN
              \* the call's record keeps the payment reference it stored
              /\ last' = [op |-> "fund_escrow", id |-> escrow_id, arg |-> "verified",
                          ret |-> "True", payment_hash |-> payment_hash]
              /\ prev' = Snapshot
              /\ UNCHANGED <<disputes, payouts, now>>
         ELSE /\ escrow_payments' =
                    [escrow_payments EXCEPT ![escrow_id].status = EscrowStatus.FUNDED]
              /\ last' = Call("fund_escrow", escrow_id, "not verified", "False")
              /\ prev' = Snapshot
              /\ UNCHANGED <<disputes, payouts, now>>

\* mutant of fund_escrow: the payment of an escrow that is not stored is
\* verified and accepted
fund_escrow_unknown(escrow_id, payment_hash, verified) ==
    IF escrow_id \notin DOMAIN escrow_payments
    THEN Returns("fund_escrow", escrow_id, "",
                 IF verify_payment(payment_hash, 0, verified) THEN "True" ELSE "False")
    ELSE LET escrow == escrow_payments[escrow_id] IN
         IF escrow.status # EscrowStatus.CREATED
         THEN Returns("fund_escrow", escrow_id, "", "False")
         ELSE IF verify_payment(payment_hash,
                                escrow.amount_sats + escrow.escrow_fee_sats, verified)
         THEN /\ escrow_payments' =
                    [escrow_payments EXCEPT ![escrow_id] =
                        [escrow EXCEPT
                            !.status = EscrowStatus.FUNDED,
                            !.funded_at = Some(now),
                            !.signatures = ("funding" :> payment_hash) @@ @]]
              \* _handle_fraud_detection only logs
              /\ detect_fraud(escrow) \in BOOLEAN
              \* the call's record keeps the payment reference it stored
              /\ last' = [op |-> "fund_escrow", id |-> escrow_id, arg |-> "verified",
                          ret |-> "True", payment_hash |-> payment_hash]
              /\ prev' = Snapshot
              /\ UNCHANGED <<disputes, payouts, now>>
         ELSE Returns("fund_escrow", escrow_id, "not verified", "False")

\* mutant of fund_escrow: the payment reference is not kept as the funding
\* signature
fund_escrow_unsigned(escrow_id, payment_hash, verified) ==
    IF escrow_id \notin DOMAIN escrow_payments
    THEN Returns("fund_escrow", escrow_id, "", "False")
    ELSE LET escrow == escrow_payments[escrow_id] IN
         IF escrow.status # EscrowStatus.CREATED
         THEN Returns("fund_escrow", escrow_id, "", "False")
         ELSE IF verify_payment(payment_hash,
                                escrow.amount_sats + escrow.escrow_fee_sats, verified)
         THEN /\ escrow_payments' =
                    [escrow_payments EXCEPT ![escrow_id] =
                        [escrow EXCEPT
                            !.status = EscrowStatus.FUNDED,
                            !.funded_at = Some(now)]]
              \* _handle_fraud_detection only logs
              /\ detect_fraud(escrow) \in BOOLEAN
              \* the call's record keeps the payment reference it stored
              /\ last' = [op |-> "fund_escrow", id |-> escrow_id, arg |-> "verified",
                          ret |-> "True", payment_hash |-> payment_hash]
              /\ prev' = Snapshot
              /\ UNCHANGED <<disputes, payouts, now>>
         ELSE Returns("fund_escrow", escrow_id, "not verified", "False")

fund_escrow(escrow_id, payment_hash, verified) ==
    IF escrow_id \notin DOMAIN escrow_payments
    THEN Returns("fund_escrow", escrow_id, "", "False")
    ELSE LET escrow == escrow_payments[escrow_id] IN
         IF escrow.status # EscrowStatus.CREATED
         THEN Returns("fund_escrow", escrow_id, "", "False")
         ELSE IF verify_payment(payment_hash,
                                escrow.amount_sats + escrow.escrow_fee_sats, verified)
         THEN /\ escrow_payments' =
                    [escrow_payments EXCEPT ![escrow_id] =
                        [escrow EXCEPT
                            !.status = EscrowStatus.FUNDED,
                            !.funded_at = Some(now),
                            !.signatures = ("funding" :> payment_hash) @@ @]]
              \* _handle_fraud_detection only logs
              /\ detect_fraud(escrow) \in BOOLEAN
              \* the call's record keeps the payment reference it stored
              /\ last' = [op |-> "fund_escrow", id |-> escrow_id, arg |-> "verified",
                          ret |-> "True", payment_hash |-> payment_hash]
              /\ prev' = Snapshot
              /\ UNCHANGED <<disputes, payouts, now>>
         ELSE Returns("fund_escrow", escrow_id, "not verified", "False")

FundEscrow ==
    /\ UNCHANGED <<calls, trust_scores, wallet>>
    /\ \E escrow_id \in EscrowIdArgs, payment_hash \in PaymentHashes,
          verified \in BOOLEAN :
            fund_escrow(escrow_id, payment_hash, verified)

\* mutant of release_escrow: the check of the status is missing
release_escrow_unchecked(escrow_id, release_reason) ==
    IF escrow_id \notin DOMAIN escrow_payments
    THEN Returns("release_escrow", escrow_id, "", "False")
    ELSE LET escrow == escrow_payments[escrow_id] IN
         IF ~check_escrow_conditions(escrow)
         THEN Returns("release_escrow", escrow_id, "", "False")
         ELSE IF process_payment_release(escrow)
         THEN /\ payouts' = [payouts EXCEPT ![escrow_id].release = @ + 1]
              /\ escrow_payments' =
                    [escrow_payments EXCEPT ![escrow_id] =
                        [escrow EXCEPT
                            !.status = EscrowStatus.RELEASED,
                            !.released_at = Some(now),
                            !.signatures =
                                ("release" :>
                                    generate_release_signature(escrow, release_reason))
                                @@ @]]
              /\ last' = Call("release_escrow", escrow_id, "", "True")
              /\ prev' = Snapshot
              /\ UNCHANGED <<disputes, now>>
         ELSE Returns("release_escrow", escrow_id, "", "False")

\* mutant of release_escrow: a Disputed escrow can be released as well
release_escrow_disputed(escrow_id, release_reason) ==
    IF escrow_id \notin DOMAIN escrow_payments
    THEN Returns("release_escrow", escrow_id, "", "False")
    ELSE LET escrow == escrow_payments[escrow_id] IN
         IF escrow.status \notin {EscrowStatus.FUNDED, EscrowStatus.DISPUTED}
         THEN Returns("release_escrow", escrow_id, "", "False")
         ELSE IF ~check_escrow_conditions(escrow)
         THEN Returns("release_escrow", escrow_id, "", "False")
         ELSE IF process_payment_release(escrow)
         THEN /\ payouts' = [payouts EXCEPT ![escrow_id].release = @ + 1]
              /\ escrow_payments' =
                    [escrow_payments EXCEPT ![escrow_id] =
                        [escrow EXCEPT
                            !.status = EscrowStatus.RELEASED,
                            !.released_at = Some(now),
                            !.signatures =
                                ("release" :>
                                    generate_release_signature(escrow, release_reason))
                                @@ @]]
              /\ last' = Call("release_escrow", escrow_id, "", "True")
              /\ prev' = Snapshot
              /\ UNCHANGED <<disputes, now>>
         ELSE Returns("release_escrow", escrow_id, "", "False")

release_escrow(escrow_id, release_reason) ==
    IF escrow_id \notin DOMAIN escrow_payments
    THEN Returns("release_escrow", escrow_id, "", "False")
    ELSE LET escrow == escrow_payments[escrow_id] IN
         IF escrow.status # EscrowStatus.FUNDED
         THEN Returns("release_escrow", escrow_id, "", "False")
         ELSE IF ~check_escrow_conditions(escrow)
         THEN Returns("release_escrow", escrow_id, "", "False")
         ELSE IF process_payment_release(escrow)
         THEN /\ payouts' = [payouts EXCEPT ![escrow_id].release = @ + 1]
              /\ escrow_payments' =
                    [escrow_payments EXCEPT ![escrow_id] =
                        [escrow EXCEPT
                            !.status = EscrowStatus.RELEASED,
                            !.released_at = Some(now),
                            !.signatures =
                                ("release" :>
                                    generate_release_signature(escrow, release_reason))
                                @@ @]]
              /\ last' = Call("release_escrow", escrow_id, "", "True")
              /\ prev' = Snapshot
              /\ UNCHANGED <<disputes, now>>
         ELSE Returns("release_escrow", escrow_id, "", "False")

ReleaseEscrow ==
    /\ UNCHANGED <<calls, trust_scores, wallet>>
    /\ \E escrow_id \in EscrowIdArgs, release_reason \in ReleaseReasons :
            release_escrow(escrow_id, release_reason)

\* mutant of create_dispute: a Created escrow can be disputed too
create_dispute_unfunded(escrow_id, complainant_id, reason, evidence) ==
    IF escrow_id \notin DOMAIN escrow_payments
    THEN Returns("create_dispute", escrow_id, "", "ValueError")
    ELSE LET escrow == escrow_payments[escrow_id] IN
         IF escrow.status \notin {EscrowStatus.CREATED, EscrowStatus.FUNDED,
                                  EscrowStatus.RELEASED}
         THEN Returns("create_dispute", escrow_id, "", "ValueError")
         ELSE LET dispute_id == generate_dispute_id
                  respondent_id ==
                      IF complainant_id = escrow.buyer_id
                      THEN escrow.seller_id ELSE escrow.buyer_id
                  arbitrator_id ==
                      IF escrow.arbitrator_id # None
                      THEN escrow.arbitrator_id[1] ELSE assign_arbitrator
                  dispute ==
                      [dispute_id |-> dispute_id,
                       escrow_id |-> escrow_id,
                       complainant_id |-> complainant_id,
                       respondent_id |-> respondent_id,
                       arbitrator_id |-> arbitrator_id,
                       reason |-> reason,
                       evidence |-> evidence,
                       status |-> DisputeStatus.OPEN,
                                 resolved_at |-> None,
                       resolution |-> None,
                       refund_amount |-> None]
              IN  /\ Cardinality(DOMAIN disputes) < MaxDisputes
                  /\ disputes' = (dispute_id :> dispute) @@ disputes
                  /\ escrow_payments' =
                        [escrow_payments EXCEPT ![escrow_id] =
                            [escrow EXCEPT
                                !.dispute_id = Some(dispute_id),
                                !.status = EscrowStatus.DISPUTED]]
                  /\ last' = Call("create_dispute", escrow_id, "", "PaymentDispute")
                  /\ prev' = Snapshot
                  /\ UNCHANGED <<payouts, now>>

\* mutant of create_dispute: a Disputed escrow can be disputed again
create_dispute_again(escrow_id, complainant_id, reason, evidence) ==
    IF escrow_id \notin DOMAIN escrow_payments
    THEN Returns("create_dispute", escrow_id, "", "ValueError")
    ELSE LET escrow == escrow_payments[escrow_id] IN
         IF escrow.status \notin {EscrowStatus.FUNDED, EscrowStatus.RELEASED,
                                  EscrowStatus.DISPUTED}
         THEN Returns("create_dispute", escrow_id, "", "ValueError")
         ELSE LET dispute_id == generate_dispute_id
                  respondent_id ==
                      IF complainant_id = escrow.buyer_id
                      THEN escrow.seller_id ELSE escrow.buyer_id
                  arbitrator_id ==
                      IF escrow.arbitrator_id # None
                      THEN escrow.arbitrator_id[1] ELSE assign_arbitrator
                  dispute ==
                      [dispute_id |-> dispute_id,
                       escrow_id |-> escrow_id,
                       complainant_id |-> complainant_id,
                       respondent_id |-> respondent_id,
                       arbitrator_id |-> arbitrator_id,
                       reason |-> reason,
                       evidence |-> evidence,
                       status |-> DisputeStatus.OPEN,
                                 resolved_at |-> None,
                       resolution |-> None,
                       refund_amount |-> None]
              IN  /\ Cardinality(DOMAIN disputes) < MaxDisputes
                  /\ disputes' = (dispute_id :> dispute) @@ disputes
                  /\ escrow_payments' =
                        [escrow_payments EXCEPT ![escrow_id] =
                            [escrow EXCEPT
                                !.dispute_id = Some(dispute_id),
                                !.status = EscrowStatus.DISPUTED]]
                  /\ last' = Call("create_dispute", escrow_id, "", "PaymentDispute")
                  /\ prev' = Snapshot
                  /\ UNCHANGED <<payouts, now>>

\* mutant of create_dispute: the escrow is linked to the new dispute but its
\* status is not set to Disputed
create_dispute_unmarked(escrow_id, complainant_id, reason, evidence) ==
    IF escrow_id \notin DOMAIN escrow_payments
    THEN Returns("create_dispute", escrow_id, "", "ValueError")
    ELSE LET escrow == escrow_payments[escrow_id] IN
         IF escrow.status \notin {EscrowStatus.FUNDED, EscrowStatus.RELEASED}
         THEN Returns("create_dispute", escrow_id, "", "ValueError")
         ELSE LET dispute_id == generate_dispute_id
                  respondent_id ==
                      IF complainant_id = escrow.buyer_id
                      THEN escrow.seller_id ELSE escrow.buyer_id
                  arbitrator_id ==
                      IF escrow.arbitrator_id # None
                      THEN escrow.arbitrator_id[1] ELSE assign_arbitrator
                  dispute ==
                      [dispute_id |-> dispute_id,
                       escrow_id |-> escrow_id,
                       complainant_id |-> complainant_id,
                       respondent_id |-> respondent_id,
                       arbitrator_id |-> arbitrator_id,
                       reason |-> reason,
                       evidence |-> evidence,
                       status |-> DisputeStatus.OPEN,
                                 resolved_at |-> None,
                       resolution |-> None,
                       refund_amount |-> None]
              IN  /\ Cardinality(DOMAIN disputes) < MaxDisputes
                  /\ disputes' = (dispute_id :> dispute) @@ disputes
                  /\ escrow_payments' =
                        [escrow_payments EXCEPT ![escrow_id] =
                            [escrow EXCEPT
                                !.dispute_id = Some(dispute_id)]]
                  /\ last' = Call("create_dispute", escrow_id, "", "PaymentDispute")
                  /\ prev' = Snapshot
                  /\ UNCHANGED <<payouts, now>>

create_dispute(escrow_id, complainant_id, reason, evidence) ==
    IF escrow_id \notin DOMAIN escrow_payments
    THEN Returns("create_dispute", escrow_id, "", "ValueError")
    ELSE LET escrow == escrow_payments[escrow_id] IN
         IF escrow.status \notin {EscrowStatus.FUNDED, EscrowStatus.RELEASED}
         THEN Returns("create_dispute", escrow_id, "", "ValueError")
         ELSE LET dispute_id == generate_dispute_id
                  respondent_id ==
                      IF complainant_id = escrow.buyer_id
                      THEN escrow.seller_id ELSE escrow.buyer_id
                  arbitrator_id ==
                      IF escrow.arbitrator_id # None
                      THEN escrow.arbitrator_id[1] ELSE assign_arbitrator
                  dispute ==
                      [dispute_id |-> dispute_id,
                       escrow_id |-> escrow_id,
                       complainant_id |-> complainant_id,
                       respondent_id |-> respondent_id,
                       arbitrator_id |-> arbitrator_id,
                       reason |-> reason,
                       evidence |-> evidence,
                       status |-> DisputeStatus.OPEN,
                                 resolved_at |-> None,
                       resolution |-> None,
                       refund_amount |-> None]
              IN  /\ Cardinality(DOMAIN disputes) < MaxDisputes
                  /\ disputes' = (dispute_id :> dispute) @@ disputes
                  /\ escrow_payments' =
                        [escrow_payments EXCEPT ![escrow_id] =
                            [escrow EXCEPT
                                !.dispute_id = Some(dispute_id),
                                !.status = EscrowStatus.DISPUTED]]
                  /\ last' = Call("create_dispute", escrow_id, "", "PaymentDispute")
                  /\ prev' = Snapshot
                  /\ UNCHANGED <<payouts, now>>

CreateDispute ==
    /\ UNCHANGED <<calls, trust_scores, wallet>>
    /\ \E escrow_id \in EscrowIdArgs, complainant_id \in ComplainantIds,
          reason \in DisputeReasons :
            create_dispute(escrow_id, complainant_id, reason, <<>>)

\* mutant of resolve_dispute: the check of the arbitrator is missing
resolve_dispute_by_anyone(dispute_id, arbitrator_id, resolution, refund_amount) ==
    IF dispute_id \notin DOMAIN disputes
    THEN Returns("resolve_dispute", dispute_id, arbitrator_id, "False")
    ELSE LET dispute == disputes[dispute_id] IN
         IF dispute.status # DisputeStatus.OPEN
         THEN Returns("resolve_dispute", dispute_id, arbitrator_id, "False")
         ELSE LET escrow == escrow_payments[dispute.escrow_id]
                  \* "if refund_amount and refund_amount > 0"
                  refund == refund_amount # None /\ refund_amount[1] # 0
                                /\ refund_amount[1] > 0
              IN  /\ disputes' =
                        [disputes EXCEPT ![dispute_id] =
                            [dispute EXCEPT
                                !.status = DisputeStatus.RESOLVED,
                                !.resolved_at = Some(now),
                                !.resolution = Some(resolution),
                                !.refund_amount = refund_amount]]
                  /\ IF refund
                     THEN /\ escrow_payments' =
                                [escrow_payments EXCEPT
                                    ![dispute.escrow_id].status = EscrowStatus.REFUNDED]
                          /\ process_refund(escrow, refund_amount[1]) \in BOOLEAN
                          /\ payouts' =
                                [payouts EXCEPT ![dispute.escrow_id].refund = @ + 1]
                     ELSE /\ escrow_payments' =
                                [escrow_payments EXCEPT
                                    ![dispute.escrow_id].status = EscrowStatus.RELEASED]
                          /\ process_payment_release(escrow) \in BOOLEAN
                          /\ payouts' =
                                [payouts EXCEPT ![dispute.escrow_id].release = @ + 1]
                  /\ last' = Call("resolve_dispute", dispute_id, arbitrator_id, "True")
                  /\ prev' = Snapshot
                  /\ UNCHANGED now

\* mutant of resolve_dispute: the check of the dispute's status is missing
resolve_dispute_again(dispute_id, arbitrator_id, resolution, refund_amount) ==
    IF dispute_id \notin DOMAIN disputes
    THEN Returns("resolve_dispute", dispute_id, arbitrator_id, "False")
    ELSE LET dispute == disputes[dispute_id] IN
         IF dispute.arbitrator_id # arbitrator_id
         THEN Returns("resolve_dispute", dispute_id, arbitrator_id, "False")
         ELSE LET escrow == escrow_payments[dispute.escrow_id]
                  \* "if refund_amount and refund_amount > 0"
                  refund == refund_amount # None /\ refund_amount[1] # 0
                                /\ refund_amount[1] > 0
              IN  /\ disputes' =
                        [disputes EXCEPT ![dispute_id] =
                            [dispute EXCEPT
                                !.status = DisputeStatus.RESOLVED,
                                !.resolved_at = Some(now),
                                !.resolution = Some(resolution),
                                !.refund_amount = refund_amount]]
                  /\ IF refund
                     THEN /\ escrow_payments' =
                                [escrow_payments EXCEPT
                                    ![dispute.escrow_id].status = EscrowStatus.REFUNDED]
                          /\ process_refund(escrow, refund_amount[1]) \in BOOLEAN
                          /\ payouts' =
                                [payouts EXCEPT ![dispute.escrow_id].refund = @ + 1]
                     ELSE /\ escrow_payments' =
                                [escrow_payments EXCEPT
                                    ![dispute.escrow_id].status = EscrowStatus.RELEASED]
                          /\ process_payment_release(escrow) \in BOOLEAN
                          /\ payouts' =
                                [payouts EXCEPT ![dispute.escrow_id].release = @ + 1]
                  /\ last' = Call("resolve_dispute", dispute_id, arbitrator_id, "True")
                  /\ prev' = Snapshot
                  /\ UNCHANGED now

\* mutant of resolve_dispute: the escrow's dispute_id is cleared on resolution
resolve_dispute_unlinking(dispute_id, arbitrator_id, resolution, refund_amount) ==
    IF dispute_id \notin DOMAIN disputes
    THEN Returns("resolve_dispute", dispute_id, arbitrator_id, "False")
    ELSE LET dispute == disputes[dispute_id] IN
         IF dispute.arbitrator_id # arbitrator_id
         THEN Returns("resolve_dispute", dispute_id, arbitrator_id, "False")
         ELSE IF dispute.status # DisputeStatus.OPEN
         THEN Returns("resolve_dispute", dispute_id, arbitrator_id, "False")
         ELSE LET escrow == escrow_payments[dispute.escrow_id]
                  \* "if refund_amount and refund_amount > 0"
                  refund == refund_amount # None /\ refund_amount[1] # 0
                                /\ refund_amount[1] > 0
              IN  /\ disputes' =
                        [disputes EXCEPT ![dispute_id] =
                            [dispute EXCEPT
                                !.status = DisputeStatus.RESOLVED,
                                !.resolved_at = Some(now),
                                !.resolution = Some(resolution),
                                !.refund_amount = refund_amount]]
                  /\ IF refund
                     THEN /\ escrow_payments' =
                                [escrow_payments EXCEPT
                                    ![dispute.escrow_id].status = EscrowStatus.REFUNDED,
                                    ![dispute.escrow_id].dispute_id = None]
                          /\ process_refund(escrow, refund_amount[1]) \in BOOLEAN
                          /\ payouts' =
                                [payouts EXCEPT ![dispute.escrow_id].refund = @ + 1]
                     ELSE /\ escrow_payments' =
                                [escrow_payments EXCEPT
                                    ![dispute.escrow_id].status = EscrowStatus.RELEASED,
                                    ![dispute.escrow_id].dispute_id = None]
                          /\ process_payment_release(escrow) \in BOOLEAN
                          /\ payouts' =
                                [payouts EXCEPT ![dispute.escrow_id].release = @ + 1]
                  /\ last' = Call("resolve_dispute", dispute_id, arbitrator_id, "True")
                  /\ prev' = Snapshot
                  /\ UNCHANGED now

resolve_dispute(dispute_id, arbitrator_id, resolution, refund_amount) ==
    IF dispute_id \notin DOMAIN disputes
    THEN Returns("resolve_dispute", dispute_id, arbitrator_id, "False")
    ELSE LET dispute == disputes[dispute_id] IN
         IF dispute.arbitrator_id # arbitrator_id
         THEN Returns("resolve_dispute", dispute_id, arbitrator_id, "False")
         ELSE IF dispute.status # DisputeStatus.OPEN
         THEN Returns("resolve_dispute", dispute_id, arbitrator_id, "False")
         ELSE LET escrow == escrow_payments[dispute.escrow_id]
                  \* "if refund_amount and refund_amount > 0"
                  refund == refund_amount # None /\ refund_amount[1] # 0
                                /\ refund_amount[1] > 0
              IN  /\ disputes' =
                        [disputes EXCEPT ![dispute_id] =
                            [dispute EXCEPT
                                !.status = DisputeStatus.RESOLVED,
                                !.resolved_at = Some(now),
                                !.resolution = Some(resolution),
                                !.refund_amount = refund_amount]]
                  /\ IF refund
                     THEN /\ escrow_payments' =
                                [escrow_payments EXCEPT
                                    ![dispute.escrow_id].status = EscrowStatus.REFUNDED]
                          /\ process_refund(escrow, refund_amount[1]) \in BOOLEAN
                          /\ payouts' =
                                [payouts EXCEPT ![dispute.escrow_id].refund = @ + 1]
                     ELSE /\ escrow_payments' =
                                [escrow_payments EXCEPT
                                    ![dispute.escrow_id].status = EscrowStatus.RELEASED]
                          /\ process_payment_release(escrow) \in BOOLEAN
                          /\ payouts' =
                                [payouts EXCEPT ![dispute.escrow_id].release = @ + 1]
                  /\ last' = Call("resolve_dispute", dispute_id, arbitrator_id, "True")
                  /\ prev' = Snapshot
                  /\ UNCHANGED now

ResolveDispute ==
    /\ UNCHANGED <<calls, trust_scores, wallet>>
    /\ \E dispute_id \in DisputeIdArgs, arbitrator_id \in ResolveArbitrators,
          resolution \in Resolutions, refund_amount \in RefundAmounts :
            resolve_dispute(dispute_id, arbitrator_id, resolution, refund_amount)

\* get_escrow_status: asdict(escrow), or None for an id that is not stored
get_escrow_status(escrow_id) ==
    Returns("get_escrow_status", escrow_id, "",
            IF escrow_id \notin DOMAIN escrow_payments
            THEN None ELSE Some(escrow_payments[escrow_id]))

GetEscrowStatus ==
    /\ UNCHANGED <<calls, trust_scores, wallet>>
    /\ \E escrow_id \in EscrowIdArgs : get_escrow_status(escrow_id)

Next ==
    \/ Tick
    \/ CreateEscrow
    \/ FundEscrow
    \/ ReleaseEscrow
    \/ CreateDispute
    \/ ResolveDispute
    \/ GetEscrowStatus

Spec == Init /\ [][Next]_vars

(* --------------------------------------------- fund_escrow, run by callers *)
\* fund_escrow holds no lock and the manager has none: a caller can be
\* suspended between any two of its statements. The steps below cut the
\* method where another caller's statements change what it goes on to do:
\* after the check of the status and around the call to _verify_payment.

\* a call's return
Done(caller, ret) == [calls EXCEPT ![caller].pc = "done", ![caller].ret = ret]

\* lines 129-134: the lookup and the check of the status
fund_escrow_check(caller, escrow_id, payment_hash) ==
    /\ calls[caller].pc = "idle"
    /\ LET call == [NoCall EXCEPT !.escrow_id = escrow_id,
                                  !.payment_hash = payment_hash]
       IN  IF escrow_id \notin DOMAIN escrow_payments
           THEN calls' = [calls EXCEPT ![caller] = [call EXCEPT !.pc = "done", !.ret = "False"]]
           ELSE IF escrow_payments[escrow_id].status # EscrowStatus.CREATED
           THEN calls' = [calls EXCEPT ![caller] = [call EXCEPT !.pc = "done", !.ret = "False"]]
           ELSE calls' = [calls EXCEPT ![caller] = [call EXCEPT !.pc = "verify"]]
    /\ UNCHANGED <<escrow_payments, disputes, payouts, now, last, prev, trust_scores, wallet>>

\* line 137: _verify_payment returns the gateway's answer
fund_escrow_verify(caller, verified) ==
    /\ calls[caller].pc = "verify"
    /\ LET escrow == escrow_payments[calls[caller].escrow_id] IN
       IF verify_payment(calls[caller].payment_hash,
                         escrow.amount_sats + escrow.escrow_fee_sats, verified)
       THEN calls' = [calls EXCEPT ![caller].pc = "commit"]
       ELSE calls' = Done(caller, "False")
    /\ UNCHANGED <<escrow_payments, disputes, payouts, now, last, prev, trust_scores, wallet>>

\* lines 138-147: the escrow becomes Funded and the call returns True
fund_escrow_commit(caller) ==
    /\ calls[caller].pc = "commit"
    /\ LET escrow_id == calls[caller].escrow_id
           escrow == escrow_payments[escrow_id]
       IN  /\ escrow_payments' =
                [escrow_payments EXCEPT ![escrow_id] =
                    [escrow EXCEPT
                        !.status = EscrowStatus.FUNDED,
                        !.funded_at = Some(now),
                        !.signatures = ("funding" :> calls[caller].payment_hash) @@ @]]
           \* _handle_fraud_detection only logs
           /\ detect_fraud(escrow) \in BOOLEAN
    /\ calls' = Done(caller, "True")
    /\ UNCHANGED <<disputes, payouts, now, last, prev, trust_scores, wallet>>

FundCheck ==
    \E caller \in Callers, escrow_id \in EscrowIdArgs, payment_hash \in PaymentHashes :
        fund_escrow_check(caller, escrow_id, payment_hash)

FundVerify ==
    \E caller \in Callers, verified \in BOOLEAN : fund_escrow_verify(caller, verified)

FundCommit ==
    \E caller \in Callers : fund_escrow_commit(caller)

NextFund ==
    \/ Tick
    \/ CreateEscrow
    \/ FundCheck
    \/ FundVerify
    \/ FundCommit

SpecFund == Init /\ [][NextFund]_vars

(* ------------------------------------------------- detect_payment_fraud *)
\* the payment events a caller may pass
FraudBuyerIds == {"buyer1", "buyer2", "buyer3"}
FraudSellerIds == {"seller1", "seller2", "seller3"}
FraudAmounts == {500, 1000, 999999, 1000000, 1000001, 2000000}

DetectPaymentFraud ==
    /\ UNCHANGED <<calls, trust_scores, wallet>>
    /\ \E buyer_id \in FraudBuyerIds, seller_id \in FraudSellerIds,
          amount \in FraudAmounts :
            LET payment_data ==
                    [buyer_id |-> buyer_id, seller_id |-> seller_id,
                     amount |-> amount, timestamp |-> now]
            IN  Returns("detect_payment_fraud", 0, payment_data,
                        detect_payment_fraud(payment_data))

NextFraud ==
    \/ Tick
    \/ DetectPaymentFraud

SpecFraud == Init /\ [][NextFraud]_vars

(* -------------------------------------------------- calculate_trust_score *)
\* src/src/identity/enhanced_did.py, class EnhancedDIDManager.
\* A Python float is kept as the exact fraction num / den in lowest terms.
\* The interaction records below are ones for which the double-precision
\* overall_score of every list falls on the same side of every tier threshold
\* as the exact one.
RECURSIVE Gcd(_, _)
Gcd(a, b) == IF b = 0 THEN a ELSE Gcd(b, a % b)

Frac(n, d) ==
    LET g == Gcd(IF n < 0 THEN -n ELSE n, d)
    IN  IF n = 0 THEN [num |-> 0, den |-> 1] ELSE [num |-> n \div g, den |-> d \div g]

\* x + y, x - y, x * y, x / y, min(x, y), x >= y on floats
fadd(x, y) == Frac(x.num * y.den + y.num * x.den, x.den * y.den)
fsub(x, y) == Frac(x.num * y.den - y.num * x.den, x.den * y.den)
fmul(x, y) == Frac(x.num * y.num, x.den * y.den)
fdiv(x, y) == Frac(x.num * y.den, x.den * y.num)
fge(x, y) == x.num * y.den >= y.num * x.den
fmin(x, y) == IF fge(x, y) THEN y ELSE x

TrustLevel ==
    [UNKNOWN |-> "unknown", LOW |-> "low", MEDIUM |-> "medium", HIGH |-> "high",
     VERIFIED |-> "verified"]

\* sum(i.get(key, 0) for i in interactions)
RECURSIVE sum(_, _)
sum(interactions, key) ==
    IF interactions = <<>> THEN Frac(0, 1)
    ELSE fadd(Head(interactions)[key], sum(Tail(interactions), key))

\* sum(1 for i in interactions if i.get("success", False))
RECURSIVE count_success(_)
count_success(interactions) ==
    IF interactions = <<>> THEN 0
    ELSE (IF Head(interactions).success THEN 1 ELSE 0) + count_success(Tail(interactions))

\* the interaction records a caller may pass
Interaction(success, payment_success, quality_score, response_time, uptime) ==
    [success |-> success, payment_success |-> payment_success,
     quality_score |-> quality_score, response_time |-> response_time,
     uptime |-> uptime]

InteractionRecords ==
    { Interaction(TRUE, Frac(1, 1), Frac(10, 10), Frac(0, 1), Frac(5, 10)),
      Interaction(TRUE, Frac(0, 1), Frac(10, 10), Frac(5, 1), Frac(5, 10)),
      Interaction(FALSE, Frac(0, 1), Frac(0, 10), Frac(20, 1), Frac(10, 10)) }

InteractionLists ==
    UNION {[1..n -> InteractionRecords] : n \in 0..MaxInteractions}

\* the agent whose score is computed, and the ids a caller may ask about
AgentIds == {"test_agent"}
AgentIdArgs == AgentIds \cup {"agent_2"}

\* mutant of overall_score: the response time is not capped at 10 seconds
overall_score_uncapped(payment_reliability, service_quality, response_time, uptime) ==
    fadd(fadd(fadd(fmul(payment_reliability, Frac(3, 10)),
                   fmul(service_quality, Frac(3, 10))),
              fmul(fsub(Frac(1, 1), fdiv(response_time, Frac(10, 1))), Frac(2, 10))),
         fmul(uptime, Frac(2, 10)))

\* lines 213-218: the weighted sum
overall_score(payment_reliability, service_quality, response_time, uptime) ==
    fadd(fadd(fadd(fmul(payment_reliability, Frac(3, 10)),
                   fmul(service_quality, Frac(3, 10))),
              fmul(fsub(Frac(1, 1),
                        fmin(fdiv(response_time, Frac(10, 1)), Frac(1, 1))),
                   Frac(2, 10))),
         fmul(uptime, Frac(2, 10)))

\* mutant of verification_level: a score on a threshold falls in the tier below
verification_level_strict(score) ==
    IF ~fge(Frac(9, 10), score) THEN TrustLevel.VERIFIED
    ELSE IF ~fge(Frac(7, 10), score) THEN TrustLevel.HIGH
    ELSE IF ~fge(Frac(5, 10), score) THEN TrustLevel.MEDIUM
    ELSE IF ~fge(Frac(3, 10), score) THEN TrustLevel.LOW
    ELSE TrustLevel.UNKNOWN

\* lines 220-230: the tier of a score
verification_level(score) ==
    IF fge(score, Frac(9, 10)) THEN TrustLevel.VERIFIED
    ELSE IF fge(score, Frac(7, 10)) THEN TrustLevel.HIGH
    ELSE IF fge(score, Frac(5, 10)) THEN TrustLevel.MEDIUM
    ELSE IF fge(score, Frac(3, 10)) THEN TrustLevel.LOW
    ELSE TrustLevel.UNKNOWN

\* lines 190-201: the score returned for an empty interaction list
empty_trust_score(agent_id) ==
    [agent_id |-> agent_id,
     overall_score |-> Frac(0, 1),
     payment_reliability |-> Frac(0, 1),
     service_quality |-> Frac(0, 1),
     response_time |-> Frac(0, 1),
     uptime |-> Frac(0, 1),
     verification_level |-> TrustLevel.UNKNOWN,
     last_updated |-> now,
     total_interactions |-> 0,
     positive_interactions |-> 0]

\* lines 203-243: the score computed from a non-empty interaction list
trust_score_of(agent_id, interactions) ==
    LET total_interactions == Len(interactions)
        positive_interactions == count_success(interactions)
        n == Frac(total_interactions, 1)
        payment_reliability == fdiv(sum(interactions, "payment_success"), n)
        service_quality == fdiv(sum(interactions, "quality_score"), n)
        response_time == fdiv(sum(interactions, "response_time"), n)
        uptime == fdiv(sum(interactions, "uptime"), n)
        score == overall_score(payment_reliability, service_quality,
                               response_time, uptime)
    IN  [agent_id |-> agent_id,
         overall_score |-> score,
         payment_reliability |-> payment_reliability,
         service_quality |-> service_quality,
         response_time |-> response_time,
         uptime |-> uptime,
         verification_level |-> verification_level(score),
         last_updated |-> now,
         total_interactions |-> total_interactions,
         positive_interactions |-> positive_interactions]

\* mutant of compute_trust_score: the interaction counts are added to the ones
\* of the score in the cache
compute_trust_score_incremental(agent_id, interactions) ==
    LET fresh == trust_score_of(agent_id, interactions)
        trust_score ==
            IF agent_id \in DOMAIN trust_scores
            THEN [fresh EXCEPT
                    !.total_interactions =
                        @ + trust_scores[agent_id].total_interactions,
                    !.positive_interactions =
                        @ + trust_scores[agent_id].positive_interactions]
            ELSE fresh
    IN  /\ trust_scores' = (agent_id :> trust_score) @@ trust_scores
        /\ last' = Call("calculate_trust_score", agent_id, interactions, trust_score)
        /\ prev' = Snapshot
        /\ UNCHANGED <<escrow_payments, disputes, payouts, now, calls, wallet>>

\* lines 203-246: the score of a non-empty list is stored and returned
compute_trust_score(agent_id, interactions) ==
    LET trust_score == trust_score_of(agent_id, interactions)
    IN  /\ trust_scores' = (agent_id :> trust_score) @@ trust_scores
        /\ last' = Call("calculate_trust_score", agent_id, interactions, trust_score)
        /\ prev' = Snapshot
        /\ UNCHANGED <<escrow_payments, disputes, payouts, now, calls, wallet>>

\* mutant of calculate_trust_score: the empty list is not handled apart, and
\* the division by total_interactions raises
calculate_trust_score_unguarded(agent_id, interactions) ==
    IF interactions = <<>>
    THEN /\ last' = Call("calculate_trust_score", agent_id, interactions,
                         [raised |-> "ZeroDivisionError"])
         /\ prev' = Snapshot
         /\ UNCHANGED <<escrow_payments, disputes, payouts, now, calls, trust_scores, wallet>>
    ELSE compute_trust_score(agent_id, interactions)

calculate_trust_score(agent_id, interactions) ==
    IF interactions = <<>>
    THEN /\ last' = Call("calculate_trust_score", agent_id, interactions,
                         empty_trust_score(agent_id))
         /\ prev' = Snapshot
         /\ UNCHANGED <<escrow_payments, disputes, payouts, now, calls, trust_scores, wallet>>
    ELSE compute_trust_score(agent_id, interactions)

CalculateTrustScore ==
    \E agent_id \in AgentIds, interactions \in InteractionLists :
        calculate_trust_score(agent_id, interactions)

\* self.trust_scores.get(agent_id)
get_agent_reputation(agent_id) ==
    /\ last' = Call("get_agent_reputation", agent_id, "",
                    IF agent_id \in DOMAIN trust_scores
                    THEN Some(trust_scores[agent_id]) ELSE None)
    /\ prev' = Snapshot
    /\ UNCHANGED <<escrow_payments, disputes, payouts, now, calls, trust_scores, wallet>>

GetAgentReputation ==
    \E agent_id \in AgentIdArgs : get_agent_reputation(agent_id)

\* update_agent_interaction: the branch taken for a known agent is "pass"
update_agent_interaction(agent_id, interaction_data) ==
    /\ last' = Call("update_agent_interaction", agent_id, interaction_data, "None")
    /\ prev' = Snapshot
    /\ UNCHANGED <<escrow_payments, disputes, payouts, now, calls, trust_scores, wallet>>

UpdateAgentInteraction ==
    \E agent_id \in AgentIdArgs, interaction_data \in InteractionRecords :
        update_agent_interaction(agent_id, interaction_data)

NextTrust ==
    \/ Tick
    \/ CalculateTrustScore
    \/ GetAgentReputation
    \/ UpdateAgentInteraction

SpecTrust == Init /\ [][NextTrust]_vars

(* ---------------------------------------------------------- MultiSigWallet *)
\* __init__: the default number of signatures a transaction needs
required_signatures == 2

\* a method of the wallet returns ret and leaves the wallet as it is
WalletReturns(op, id, arg, ret) ==
    /\ last' = Call(op, id, arg, ret)
    /\ prev' = Snapshot
    /\ UNCHANGED <<escrow_payments, disputes, payouts, now, calls, trust_scores>>
    /\ UNCHANGED wallet

\* add_signer: the signer is stored under its id, over any earlier entry
add_signer(signer_id, public_key) ==
    /\ signers' = (signer_id :> [public_key |-> public_key, added_at |-> now])
                      @@ signers
    /\ last' = Call("add_signer", signer_id, public_key, "None")
    /\ prev' = Snapshot
    /\ UNCHANGED <<pending_transactions, completed_transactions, executions>>
    /\ UNCHANGED <<escrow_payments, disputes, payouts, now, calls, trust_scores>>

AddSigner ==
    \E signer_id \in SignerIds, public_key \in PublicKeys :
        add_signer(signer_id, public_key)

\* create_transaction: a new pending transaction is stored under the id the
\* caller gives, whatever the wallet already holds under that id
create_transaction(transaction_id, amount, recipient, description) ==
    LET transaction ==
            [transaction_id |-> transaction_id,
             amount |-> amount,
             recipient |-> recipient,
             description |-> description,
             created_at |-> now,
             signatures |-> <<>>,
             status |-> "pending",
             executed_at |-> None]
    IN  /\ executions[transaction_id] < MaxExecutions
        /\ pending_transactions' =
                (transaction_id :> transaction) @@ pending_transactions
        /\ last' = Call("create_transaction", transaction_id, "", "transaction")
        /\ prev' = Snapshot
        /\ UNCHANGED <<signers, completed_transactions, executions>>
        /\ UNCHANGED <<escrow_payments, disputes, payouts, now, calls, trust_scores>>

CreateTransaction ==
    \E transaction_id \in TransactionIds, amount \in TransactionAmounts,
       recipient \in Recipients :
        create_transaction(transaction_id, amount, recipient, "")

\* _execute_transaction, called by sign_transaction with the pending
\* transactions as the new signature left them
execute_transaction(pending, transaction_id, signer_id) ==
    IF transaction_id \notin DOMAIN pending
    THEN /\ pending_transactions' = pending
         /\ last' = Call("sign_transaction", transaction_id, signer_id, "False")
         /\ prev' = Snapshot
         /\ UNCHANGED <<signers, completed_transactions, executions>>
         /\ UNCHANGED <<escrow_payments, disputes, payouts, now, calls, trust_scores>>
    ELSE LET transaction ==
                 [pending[transaction_id] EXCEPT
                     !.status = "executed",
                     !.executed_at = Some(now)]
         IN  /\ completed_transactions' =
                     (transaction_id :> transaction) @@ completed_transactions
             /\ pending_transactions' =
                     [id \in DOMAIN pending \ {transaction_id} |-> pending[id]]
             /\ executions' = [executions EXCEPT ![transaction_id] = @ + 1]
             /\ last' = Call("sign_transaction", transaction_id, signer_id, "True")
             /\ prev' = Snapshot
             /\ UNCHANGED signers
             /\ UNCHANGED <<escrow_payments, disputes, payouts, now, calls,
                            trust_scores>>

\* sign_transaction: a registered signer signs a pending transaction, which
\* is executed once it carries required_signatures signatures
sign_transaction(transaction_id, signer_id, signature) ==
    IF transaction_id \notin DOMAIN pending_transactions
    THEN WalletReturns("sign_transaction", transaction_id, signer_id, "False")
    ELSE IF signer_id \notin DOMAIN signers
    THEN WalletReturns("sign_transaction", transaction_id, signer_id, "False")
    ELSE LET transaction ==
                 [pending_transactions[transaction_id] EXCEPT
                     !.signatures = (signer_id :> signature) @@ @]
             pending ==
                 [pending_transactions EXCEPT ![transaction_id] = transaction]
         IN  IF Cardinality(DOMAIN transaction.signatures) >= required_signatures
             THEN execute_transaction(pending, transaction_id, signer_id)
             ELSE /\ pending_transactions' = pending
                  /\ last' = Call("sign_transaction", transaction_id, signer_id,
                                  "True")
                  /\ prev' = Snapshot
                  /\ UNCHANGED <<signers, completed_transactions, executions>>
                  /\ UNCHANGED <<escrow_payments, disputes, payouts, now, calls,
                                 trust_scores>>

SignTransaction ==
    \E transaction_id \in TransactionIds, signer_id \in SignerIds,
       signature \in Signatures :
        sign_transaction(transaction_id, signer_id, signature)

\* get_transaction_status: the pending transaction of that id, else the
\* completed one, else None
get_transaction_status(transaction_id) ==
    WalletReturns("get_transaction_status", transaction_id, "",
                  IF transaction_id \in DOMAIN pending_transactions
                  THEN Some(pending_transactions[transaction_id])
                  ELSE IF transaction_id \in DOMAIN completed_transactions
                  THEN Some(completed_transactions[transaction_id])
                  ELSE None)

GetTransactionStatus ==
    \E transaction_id \in TransactionIds : get_transaction_status(transaction_id)

NextWallet ==
    \/ Tick
    \/ AddSigner
    \/ CreateTransaction
    \/ SignTransaction
    \/ GetTransactionStatus

SpecWallet == Init /\ [][NextWallet]_vars

(* ------------------------------------------------------------ the claims *)
\* the escrow a call named, as the call found it and as it left it
Known(id) == id \in DOMAIN prev.escrow_payments
Before(id) == prev.escrow_payments[id]
After(id) == escrow_payments[id]
\* the call left every escrow and every dispute as it found them
NothingChanged ==
    /\ escrow_payments = prev.escrow_payments
    /\ disputes = prev.disputes

C2_AmountsPositive ==
    \A id \in DOMAIN escrow_payments :
        /\ escrow_payments[id].amount_sats > 0
        /\ escrow_payments[id].escrow_fee_sats >= 0

\* C3: fund_escrow on an escrow whose status is not Created returns failure
\* and leaves the escrow (status, funded_at, funding proof) as it was.
C3_FundNotCreatedFails ==
    (last.op = "fund_escrow" /\ Known(last.id)
        /\ Before(last.id).status # EscrowStatus.CREATED) =>
            /\ last.ret = "False"
            /\ After(last.id) = Before(last.id)
            /\ NothingChanged

\* C3 witness: fund_escrow was called, at a later time, on an escrow that was
\* already Funded.
C3_Witness ==
    /\ last.op = "fund_escrow"
    /\ Known(last.id)
    /\ Before(last.id).status = EscrowStatus.FUNDED
    /\ Before(last.id).funded_at = Some(0)
    /\ now > 0
    /\ last.ret = "False"

\* C4: fund_escrow on a Created escrow changes the escrow only once the
\* payment is verified: when verification answers false it returns failure and
\* the escrow stays Created with funded_at unset and no funding proof; when
\* verification answers true, on a first call or on a retry, it returns
\* success and the escrow is Funded.
C4_FailedVerificationChangesNothing ==
    (last.op = "fund_escrow" /\ Known(last.id)
        /\ Before(last.id).status = EscrowStatus.CREATED) =>
            \/ /\ last.arg = "not verified"
               /\ last.ret = "False"
               /\ NothingChanged
               /\ After(last.id).status = EscrowStatus.CREATED
               /\ After(last.id).funded_at = None
               /\ "funding" \notin DOMAIN After(last.id).signatures
            \/ /\ last.arg = "verified"
               /\ last.ret = "True"
               /\ After(last.id).status = EscrowStatus.FUNDED

\* C4 witness: the payment of a Created escrow was not verified.
C4_Witness ==
    /\ last.op = "fund_escrow"
    /\ last.arg = "not verified"
    /\ Known(last.id)
    /\ After(last.id).status = EscrowStatus.CREATED

\* C5: release_escrow returns success only on a Funded escrow, which it leaves
\* Released; on any other escrow it returns failure and changes nothing, so a
\* second release_escrow after a successful one fails.
C5_ReleaseOnlyFromFunded ==
    last.op = "release_escrow" =>
        IF Known(last.id) /\ Before(last.id).status = EscrowStatus.FUNDED
        THEN /\ last.ret = "True"
             /\ After(last.id).status = EscrowStatus.RELEASED
             /\ After(last.id).status # EscrowStatus.FUNDED
        ELSE /\ last.ret = "False"
             /\ NothingChanged

\* C5 witness: release_escrow was called again on an escrow that
\* release_escrow had released, and failed.
C5_Witness ==
    /\ last.op = "release_escrow"
    /\ last.ret = "False"
    /\ Known(last.id)
    /\ Before(last.id).status = EscrowStatus.RELEASED
    /\ Before(last.id).dispute_id = None

StatusEdges ==
    { <<EscrowStatus.CREATED, EscrowStatus.FUNDED>>,
      <<EscrowStatus.FUNDED, EscrowStatus.RELEASED>>,
      <<EscrowStatus.FUNDED, EscrowStatus.DISPUTED>>,
      <<EscrowStatus.DISPUTED, EscrowStatus.RELEASED>>,
      <<EscrowStatus.DISPUTED, EscrowStatus.REFUNDED>> }

\* C6: every change of an escrow's status follows one of the edges
\* Created->Funded, Funded->Released, Funded->Disputed, Disputed->Released,
\* Disputed->Refunded; a Released or Refunded escrow is never changed again.
\* (Stated of the escrows whose amount is positive.)
C6_StatusFollowsEdges ==
    \A id \in DOMAIN prev.escrow_payments :
        Before(id).amount_sats > 0 =>
            /\ Before(id).status # After(id).status =>
                    <<Before(id).status, After(id).status>> \in StatusEdges
            /\ Before(id).status \in {EscrowStatus.RELEASED, EscrowStatus.REFUNDED} =>
                    After(id) = Before(id)
\* the open disputes stored for an escrow
OpenDisputes(ds, escrow_id) ==
    {d \in DOMAIN ds : ds[d].escrow_id = escrow_id /\ ds[d].status = DisputeStatus.OPEN}

\* C7: create_dispute raises an error and creates no dispute unless the escrow
\* exists and is Funded or Released; when it succeeds it stores one new
\* dispute, Open, for that escrow, and leaves the escrow Disputed with
\* dispute_id naming the new dispute.
C7_DisputeOnlyFromFundedOrReleased ==
    last.op = "create_dispute" =>
        IF Known(last.id) /\ Before(last.id).status \in
                {EscrowStatus.FUNDED, EscrowStatus.RELEASED}
        THEN /\ last.ret = "PaymentDispute"
             /\ \E d \in DOMAIN disputes \ DOMAIN prev.disputes :
                    /\ DOMAIN disputes = DOMAIN prev.disputes \cup {d}
                    /\ disputes[d].status = DisputeStatus.OPEN
                    /\ disputes[d].escrow_id = last.id
                    /\ disputes[d].dispute_id = d
                    /\ After(last.id).status = EscrowStatus.DISPUTED
                    /\ After(last.id).dispute_id = Some(d)
             /\ \A d \in DOMAIN prev.disputes : disputes[d] = prev.disputes[d]
        ELSE /\ last.ret = "ValueError"
             /\ NothingChanged

\* C7 witness: a dispute was just opened on a Funded escrow.
C7_Witness ==
    /\ last.op = "create_dispute"
    /\ last.ret = "PaymentDispute"
    /\ Before(last.id).status = EscrowStatus.FUNDED
    /\ After(last.id).status = EscrowStatus.DISPUTED

\* C8: an escrow never has two Open disputes: create_dispute on an escrow that
\* has an Open dispute fails, and no call removes or rewrites a dispute that
\* was resolved earlier.
C8_OneOpenDisputePerEscrow ==
    /\ \A id \in DOMAIN escrow_payments :
            Cardinality(OpenDisputes(disputes, id)) <= 1
    /\ (last.op = "create_dispute" /\ OpenDisputes(prev.disputes, last.id) # {}) =>
            /\ last.ret = "ValueError"
            /\ NothingChanged
    /\ \A d \in DOMAIN prev.disputes :
            /\ d \in DOMAIN disputes
            /\ prev.disputes[d].status = DisputeStatus.RESOLVED =>
                    disputes[d] = prev.disputes[d]

\* C8 witness: create_dispute just failed on an escrow that has one Open
\* dispute and a dispute resolved earlier.
C8_Witness ==
    /\ last.op = "create_dispute"
    /\ last.ret = "ValueError"
    /\ Known(last.id)
    /\ Cardinality(OpenDisputes(disputes, last.id)) = 1
    /\ \E d \in DOMAIN disputes :
            /\ disputes[d].escrow_id = last.id
            /\ disputes[d].status = DisputeStatus.RESOLVED

\* C9: after create_dispute on a Funded escrow and resolve_dispute by the
\* assigned arbitrator, the dispute is Resolved and the escrow is Released,
\* the release processed once, when refund_amount is None, and Refunded when
\* refund_amount equals the escrow's amount_sats.
C9_ResolveGivesFinalStatus ==
    (last.op = "resolve_dispute" /\ last.ret = "True") =>
        LET dispute == disputes[last.id]
            escrow == escrow_payments[dispute.escrow_id]
            \* the dispute was opened on a Funded escrow: the escrow had not
            \* been released and has no other dispute
            on_funded ==
                /\ escrow.released_at = None
                /\ \A d \in DOMAIN disputes :
                        disputes[d].escrow_id = dispute.escrow_id => d = last.id
        IN  on_funded =>
                /\ dispute.status = DisputeStatus.RESOLVED
                /\ dispute.arbitrator_id = last.arg
                /\ dispute.refund_amount = None =>
                        /\ escrow.status = EscrowStatus.RELEASED
                        /\ payouts[dispute.escrow_id] = [release |-> 1, refund |-> 0]
                /\ dispute.refund_amount = Some(escrow.amount_sats) =>
                        escrow.status = EscrowStatus.REFUNDED

\* C10: resolve_dispute called with an arbitrator_id other than the dispute's
\* returns failure and leaves the dispute and its escrow as they were.
C10_WrongArbitratorFails ==
    (last.op = "resolve_dispute" /\ last.id \in DOMAIN prev.disputes
        /\ prev.disputes[last.id].arbitrator_id # last.arg) =>
            /\ last.ret = "False"
            /\ disputes[last.id] = prev.disputes[last.id]
            /\ NothingChanged

\* C10 witness: an arbitrator other than the assigned one tried to resolve an
\* Open dispute.
C10_Witness ==
    /\ last.op = "resolve_dispute"
    /\ last.id \in DOMAIN prev.disputes
    /\ prev.disputes[last.id].arbitrator_id # last.arg
    /\ prev.disputes[last.id].status = DisputeStatus.OPEN
    /\ last.ret = "False"

\* C11: resolve_dispute on a dispute whose status is not Open returns failure
\* and changes nothing, whoever the arbitrator named: a dispute's resolution,
\* refund_amount and resolved_at are set once, when it becomes Resolved, and a
\* Resolved dispute never moves its escrow or pays out again.
C11_ResolveNotOpenFails ==
    /\ (last.op = "resolve_dispute" /\ last.id \in DOMAIN prev.disputes
            /\ prev.disputes[last.id].status # DisputeStatus.OPEN) =>
                /\ last.ret = "False"
                /\ NothingChanged
    /\ \A d \in DOMAIN prev.disputes :
            IF prev.disputes[d].status = DisputeStatus.OPEN
            THEN /\ prev.disputes[d].resolution = None
                 /\ prev.disputes[d].refund_amount = None
            ELSE disputes[d] = prev.disputes[d]

\* C11 witness: the assigned arbitrator called resolve_dispute again, with time
\* passed, on a dispute resolved earlier, and the call failed.
C11_Witness ==
    /\ last.op = "resolve_dispute"
    /\ last.ret = "False"
    /\ last.id \in DOMAIN prev.disputes
    /\ prev.disputes[last.id].status = DisputeStatus.RESOLVED
    /\ prev.disputes[last.id].arbitrator_id = last.arg
    /\ prev.disputes[last.id].resolved_at = Some(0)
    /\ now > 0

\* C12: every Resolved dispute records a refund_amount that is absent or lies
\* in [0, escrow.amount_sats] (resolve_dispute with a larger refund_amount
\* fails and changes neither the dispute nor the escrow). Stated of the
\* escrows whose amount is positive.
C12_RefundWithinAmount ==
    \A d \in DOMAIN disputes :
        LET dispute == disputes[d]
            escrow == escrow_payments[dispute.escrow_id]
        IN  (dispute.status = DisputeStatus.RESOLVED /\ escrow.amount_sats > 0) =>
                \/ dispute.refund_amount = None
                \/ /\ 0 <= dispute.refund_amount[1]
                   /\ dispute.refund_amount[1] <= escrow.amount_sats

\* the callers whose fund_escrow call on an escrow has returned ret
Returned(escrow_id, ret) ==
    {caller \in Callers :
        /\ calls[caller].pc = "done"
        /\ calls[caller].escrow_id = escrow_id
        /\ calls[caller].ret = ret}

\* C13: of the fund_escrow calls made by concurrent callers on one newly
\* Created escrow, under every interleaving, at most one returns True, and
\* once every caller has returned and the escrow is Funded exactly one has
\* returned True and all the others False. (Stated of the escrows whose
\* amount is positive.)
C13_OneCallerFunds ==
    \A id \in DOMAIN escrow_payments : escrow_payments[id].amount_sats > 0 =>
        /\ Cardinality(Returned(id, "True")) <= 1
        /\ (escrow_payments[id].status = EscrowStatus.FUNDED
                /\ \A caller \in Callers :
                        calls[caller].pc = "done" /\ calls[caller].escrow_id = id) =>
                /\ Cardinality(Returned(id, "True")) = 1
                /\ Cardinality(Returned(id, "False")) = MaxCallers - 1

\* the rule ids in a result of detect_payment_fraud
Triggered(triggered_rules) ==
    {triggered_rules[i] : i \in 1..Len(triggered_rules)}

\* C14: with the default rules, detect_payment_fraud returns "high_amount"
\* among the triggered rules exactly when the event's amount is greater than
\* the threshold 1,000,000, and an event with amount 500 or 1000 triggers no
\* rule.
C14_HighAmountTriggers ==
    last.op = "detect_payment_fraud" =>
        /\ "high_amount" \in Triggered(last.ret) <=> last.arg.amount > 1000000
        /\ last.arg.amount \in {500, 1000} => last.ret = <<>>

\* C15: calculate_trust_score with an empty interaction list raises nothing:
\* it returns a TrustScore with overall_score 0.0, verification_level Unknown,
\* total_interactions 0 and positive_interactions 0.
C15_EmptyListGivesZeroScore ==
    (last.op = "calculate_trust_score" /\ last.arg = <<>>) =>
        /\ "overall_score" \in DOMAIN last.ret
        /\ last.ret.agent_id = last.id
        /\ last.ret.overall_score = Frac(0, 1)
        /\ last.ret.verification_level = TrustLevel.UNKNOWN
        /\ last.ret.total_interactions = 0
        /\ last.ret.positive_interactions = 0

\* C15 witness: a score was just computed from an empty list for an agent that
\* has a score of a higher tier in the cache.
C15_Witness ==
    /\ last.op = "calculate_trust_score"
    /\ last.arg = <<>>
    /\ last.id \in DOMAIN prev.trust_scores
    /\ prev.trust_scores[last.id].verification_level = TrustLevel.VERIFIED

\* C16: get_agent_reputation returns the result of the most recent
\* calculate_trust_score for the agent, whatever the interaction list was, the
\* empty one included, and None if none was computed; get_agent_reputation and
\* update_agent_interaction leave the cached scores as they were.
C16_GetScoreIsLastComputed ==
    /\ last.op = "calculate_trust_score" =>
            /\ last.id \in DOMAIN trust_scores
            /\ trust_scores[last.id] = last.ret
            /\ \A a \in DOMAIN prev.trust_scores \ {last.id} :
                    trust_scores[a] = prev.trust_scores[a]
    /\ last.op \in {"get_agent_reputation", "update_agent_interaction"} =>
            trust_scores = prev.trust_scores
    /\ last.op = "get_agent_reputation" =>
            last.ret = IF last.id \in DOMAIN trust_scores
                       THEN Some(trust_scores[last.id]) ELSE None

\* ten times a value of an interaction record, a whole number for the records
\* above, and the sum of it over an interaction list
Tenths(x) == (x.num * 10) \div x.den
SumTenths(interactions, key) ==
    LET RECURSIVE upto(_)
        upto(i) == IF i = 0 THEN 0 ELSE Tenths(interactions[i][key]) + upto(i - 1)
    IN  upto(Len(interactions))

\* C17: for a non-empty interaction list, calculate_trust_score returns
\* overall_score = 0.3*avg(payment_success) + 0.3*avg(quality_score)
\* + 0.2*(1 - min(avg(response_time)/10, 1)) + 0.2*avg(uptime), with
\* total_interactions the number of records and positive_interactions the
\* number of records with success, and overall_score lies in [0, 1].
\* (Both sides of the equation are multiplied by 1000 * total_interactions.)
C17_OverallScoreFormula ==
    (last.op = "calculate_trust_score" /\ last.arg # <<>>) =>
        LET interactions == last.arg
            n == Len(interactions)
            score == last.ret.overall_score
            capped ==
                IF SumTenths(interactions, "response_time") < 100 * n
                THEN SumTenths(interactions, "response_time") ELSE 100 * n
        IN  /\ score.num * 1000 * n =
                    score.den * ( 30 * SumTenths(interactions, "payment_success")
                                + 30 * SumTenths(interactions, "quality_score")
                                + 2 * (100 * n - capped)
                                + 20 * SumTenths(interactions, "uptime") )
            /\ 0 <= score.num /\ score.num <= score.den
            /\ last.ret.total_interactions = n
            /\ last.ret.positive_interactions =
                    Cardinality({i \in 1..n : interactions[i].success})

\* C17 witness: a score was just computed from two records, one of them a
\* success, whose average response time is above the cap of 10 seconds.
C17_Witness ==
    /\ last.op = "calculate_trust_score"
    /\ Len(last.arg) = 2
    /\ last.ret.positive_interactions = 1
    /\ SumTenths(last.arg, "response_time") > 100 * Len(last.arg)

\* the tier the thresholds give to a score
TierOf(score) ==
    IF score.num * 10 >= 9 * score.den THEN "verified"
    ELSE IF score.num * 10 >= 7 * score.den THEN "high"
    ELSE IF score.num * 10 >= 5 * score.den THEN "medium"
    ELSE IF score.num * 10 >= 3 * score.den THEN "low"
    ELSE "unknown"

\* C18: the verification_level of every TrustScore returned or cached is the
\* threshold function of its overall_score: Verified when >= 0.9, High when
\* >= 0.7, Medium when >= 0.5, Low when >= 0.3, otherwise Unknown.
C18_LevelFollowsThresholds ==
    /\ last.op = "calculate_trust_score" =>
            last.ret.verification_level = TierOf(last.ret.overall_score)
    /\ \A a \in DOMAIN trust_scores :
            trust_scores[a].verification_level = TierOf(trust_scores[a].overall_score)

\* C18 witness: a score that lies on the threshold 0.7 was just computed and
\* its level is High.
C18_Witness ==
    /\ last.op = "calculate_trust_score"
    /\ last.arg # <<>>
    /\ last.ret.overall_score = Frac(7, 10)
    /\ last.ret.verification_level = TrustLevel.HIGH

\* C19: fund_escrow and release_escrow given an escrow_id that is not stored,
\* and resolve_dispute given a dispute_id that is not stored, return failure
\* and change no escrow and no dispute; get_escrow_status of an escrow_id that
\* is not stored returns None, and changes nothing either.
C19_UnknownIdFails ==
    /\ (last.op \in {"fund_escrow", "release_escrow"} /\ ~Known(last.id)) =>
            /\ last.ret = "False"
            /\ NothingChanged
    /\ (last.op = "resolve_dispute" /\ last.id \notin DOMAIN prev.disputes) =>
            /\ last.ret = "False"
            /\ NothingChanged
    /\ last.op = "get_escrow_status" =>
            /\ NothingChanged
            /\ last.ret = IF Known(last.id) THEN Some(Before(last.id)) ELSE None

\* C19 witness: fund_escrow was just called with an escrow_id that is not
\* stored, while another escrow, still Created, is.
C19_Witness ==
    /\ last.op = "fund_escrow"
    /\ ~Known(last.id)
    /\ \E id \in DOMAIN escrow_payments :
            escrow_payments[id].status = EscrowStatus.CREATED
    /\ last.ret = "False"

\* C20: in every reachable state an escrow whose status is Released has
\* released_at set and a "release" entry in its signatures, whether it was
\* released by release_escrow or by resolve_dispute without a refund.
\* (Stated of the escrows whose amount is positive.)
C20_ReleasedIsSigned ==
    \A id \in DOMAIN escrow_payments :
        (escrow_payments[id].status = EscrowStatus.RELEASED
            /\ escrow_payments[id].amount_sats > 0) =>
                /\ escrow_payments[id].released_at # None
                /\ "release" \in DOMAIN escrow_payments[id].signatures

\* C21: while an escrow is Disputed, fund_escrow, release_escrow and
\* create_dispute on it fail and change nothing, and the only call that
\* changes the escrow is a successful resolve_dispute of the Open dispute its
\* dispute_id names.
C21_OnlyResolveLeavesDisputed ==
    \A id \in DOMAIN prev.escrow_payments :
        Before(id).status = EscrowStatus.DISPUTED =>
            /\ (last.id = id /\ last.op \in {"fund_escrow", "release_escrow"}) =>
                    /\ last.ret = "False"
                    /\ NothingChanged
            /\ (last.id = id /\ last.op = "create_dispute") =>
                    /\ last.ret = "ValueError"
                    /\ NothingChanged
            /\ After(id) # Before(id) =>
                    /\ last.op = "resolve_dispute"
                    /\ last.ret = "True"
                    /\ Before(id).dispute_id = Some(last.id)
                    /\ prev.disputes[last.id].escrow_id = id
                    /\ prev.disputes[last.id].status = DisputeStatus.OPEN
                    /\ After(id).status \in {EscrowStatus.RELEASED, EscrowStatus.REFUNDED}

\* C21 witness: release_escrow was just called on a Disputed escrow and
\* failed.
C21_Witness ==
    /\ last.op = "release_escrow"
    /\ Known(last.id)
    /\ Before(last.id).status = EscrowStatus.DISPUTED
    /\ After(last.id).status = EscrowStatus.DISPUTED
    /\ last.ret = "False"

\* C22: for every dispute stored, the complainant and the respondent are the
\* two parties of the disputed escrow: complainant_id is its buyer or its
\* seller and respondent_id is the other one. (Stated of the escrows whose
\* amount is positive.)
C22_DisputeBetweenParties ==
    \A d \in DOMAIN disputes :
        LET dispute == disputes[d]
            escrow == escrow_payments[dispute.escrow_id]
        IN  escrow.amount_sats > 0 =>
                \/ /\ dispute.complainant_id = escrow.buyer_id
                   /\ dispute.respondent_id = escrow.seller_id
                \/ /\ dispute.complainant_id = escrow.seller_id
                   /\ dispute.respondent_id = escrow.buyer_id

\* the predicate of a rule, as the rule's conditions state it: high_amount
\* holds of an event whose amount is above amount_threshold; the events here
\* carry no history, so the rate and the age rules hold of none
RuleHolds(rule, payment_data) ==
    /\ rule.rule_id = "high_amount"
    /\ payment_data.amount > rule.conditions.amount_threshold

\* C23: detect_payment_fraud returns the rule_id of every enabled rule whose
\* predicate is true for the event, in the order the rules were added, all of
\* them and no disabled one, and changes no rule, escrow or dispute.
C23_AllMatchingRulesInOrder ==
    last.op = "detect_payment_fraud" =>
        LET matches(rule) == rule.enabled /\ RuleHolds(rule, last.arg)
            matching == SelectSeq(fraud_rules, matches)
        IN  /\ last.ret = [i \in 1..Len(matching) |-> matching[i].rule_id]
            /\ NothingChanged

C25_RecordsAreKept ==
    /\ \A id \in DOMAIN prev.escrow_payments :
            /\ id \in DOMAIN escrow_payments
            /\ After(id).escrow_id = Before(id).escrow_id
            /\ After(id).buyer_id = Before(id).buyer_id
            /\ After(id).seller_id = Before(id).seller_id
            /\ After(id).amount_sats = Before(id).amount_sats
            /\ After(id).escrow_fee_sats = Before(id).escrow_fee_sats
            /\ After(id).service_description = Before(id).service_description
            /\ \A k \in DOMAIN Before(id).signatures :
                    /\ k \in DOMAIN After(id).signatures
                    /\ After(id).signatures[k] = Before(id).signatures[k]
            /\ Before(id).dispute_id # None => After(id).dispute_id # None
    /\ \A d \in DOMAIN prev.disputes :
            /\ d \in DOMAIN disputes
            /\ disputes[d].dispute_id = prev.disputes[d].dispute_id
            /\ disputes[d].escrow_id = prev.disputes[d].escrow_id

\* C25 witness: a dispute was just resolved on an escrow that carries both
\* signatures and a dispute_id.
C25_Witness ==
    /\ last.op = "resolve_dispute"
    /\ last.ret = "True"
    /\ LET id == disputes[last.id].escrow_id
       IN  /\ DOMAIN Before(id).signatures = {"funding", "release"}
           /\ Before(id).dispute_id = Some(last.id)
           /\ After(id).status # Before(id).status

\* a TrustScore without its last_updated
Timeless(trust_score) ==
    [field \in DOMAIN trust_score \ {"last_updated"} |-> trust_score[field]]

InUnitRange(x) == fge(x, Frac(0, 1)) /\ fge(Frac(1, 1), x)

\* the average latency of a non-empty interaction list
AverageLatency(interactions) ==
    fdiv(sum(interactions, "response_time"), Frac(Len(interactions), 1))

\* C27: every component stored in a score computed from a non-empty list of
\* in-range records (payment_reliability, service_quality, response_time,
\* uptime) lies in [0,1], and the response_time component is inverted: any
\* list of lower average latency gives a strictly higher component value.
C27_ComponentsInUnitRange ==
    (last.op = "calculate_trust_score" /\ last.arg # <<>>) =>
        /\ \A component \in {"payment_reliability", "service_quality",
                             "response_time", "uptime"} :
               InUnitRange(last.ret[component])
        /\ \A other \in InteractionLists \ {<<>>} :
               (/\ fge(AverageLatency(last.arg), AverageLatency(other))
                /\ AverageLatency(last.arg) # AverageLatency(other))
               => (/\ fge(trust_score_of(last.id, other).response_time,
                          last.ret.response_time)
                   /\ trust_score_of(last.id, other).response_time
                          # last.ret.response_time)

\* C28: the funds of an escrow of a positive amount are paid out at most
\* once: the release to the seller and the refund to the buyer are processed
\* at most once in total.
C28_PaidOutAtMostOnce ==
    \A escrow_id \in DOMAIN payouts :
        escrow_payments[escrow_id].amount_sats > 0 =>
            payouts[escrow_id].release + payouts[escrow_id].refund <= 1

\* the escrow's dispute_id names a stored dispute that is Open and is about
\* this escrow
HasOpenDispute(escrow_id) ==
    LET escrow == escrow_payments[escrow_id] IN
    /\ escrow.dispute_id # None
    /\ escrow.dispute_id[1] \in DOMAIN disputes
    /\ disputes[escrow.dispute_id[1]].status = DisputeStatus.OPEN
    /\ disputes[escrow.dispute_id[1]].escrow_id = escrow_id

\* C29: in every state reached by sequentially applied operations, an escrow
\* has status Disputed if and only if its dispute_id refers to a stored
\* dispute whose status is Open and whose escrow_id is that escrow.
C29_DisputedIffOpenDispute ==
    \A escrow_id \in DOMAIN escrow_payments :
        (escrow_payments[escrow_id].status = EscrowStatus.DISPUTED)
            <=> HasOpenDispute(escrow_id)

\* C29 witness: a second dispute was just opened on an escrow whose first
\* dispute is resolved; the escrow is Disputed and linked to the open one.
C29_Witness ==
    /\ last.op = "create_dispute" /\ last.ret = "PaymentDispute"
    /\ escrow_payments[last.id].status = EscrowStatus.DISPUTED
    /\ HasOpenDispute(last.id)
    /\ \E dispute_id \in DOMAIN disputes :
          /\ disputes[dispute_id].escrow_id = last.id
          /\ disputes[dispute_id].status = DisputeStatus.RESOLVED

\* the registered signers who have signed a transaction
RegisteredSigners(transaction) ==
    DOMAIN transaction.signatures \cap DOMAIN signers

\* C30: in the wallet, a transaction id is executed at most once and is never
\* in both the pending and the completed transactions, and a completed
\* transaction carries the signatures of at least required_signatures
\* distinct registered signers.
C30_ExecutedOnceAfterQuorum ==
    /\ \A transaction_id \in TransactionIds : executions[transaction_id] <= 1
    /\ DOMAIN pending_transactions \cap DOMAIN completed_transactions = {}
    /\ \A transaction_id \in DOMAIN completed_transactions :
          Cardinality(RegisteredSigners(completed_transactions[transaction_id]))
              >= required_signatures
====
